---- MODULE Spec2Model ----
(***************************************************************************)
(* State-machine model of "Lesson 2/cg_proj1/main.cpp": a GLFW/GLEW host   *)
(* program that builds one shader program and one VAO/VBO pair and then    *)
(* runs a render loop until the window's close flag is set.               *)
(*                                                                         *)
(* main() is sequential, so the model is a program counter `pc` walking    *)
(* the statements of main, one action per statement (or per small group of *)
(* adjacent calls).  The windowing library, the loader and the GL driver   *)
(* are the environment: their outcomes (init / window / loader success,    *)
(* compile and link status, the events a poll delivers) are chosen         *)
(* nondeterministically.                                                   *)
(***************************************************************************)
EXTENDS Integers, Sequences, FiniteSets

VARIABLES
    pc,              \* position in main()
    glfw,            \* windowing subsystem: "uninit" | "ready" | "failed" | "terminated"
    terminateCalls,  \* number of glfwTerminate() calls made
    window,          \* "NULL" | "open" | "destroyed"
    contextCurrent,  \* glfwMakeContextCurrent done
    resizeCallback,  \* registered framebuffer-size callback ("none" or its name)
    shouldClose,     \* the window's close flag
    keyEsc,          \* last reported state of GLFW_KEY_ESCAPE: "RELEASE" | "PRESS"
    fb,              \* framebuffer size <<width, height>>
    viewport,        \* GL viewport <<x, y, width, height>>
    glewLoaded,      \* glewInit() returned GLEW_OK
    obj,             \* handle -> "none" | "live" | "deleted"
    dels,            \* handle -> number of glDelete* calls on it
    compiled,        \* shader handle -> GL_COMPILE_STATUS
    linked,          \* GL_LINK_STATUS of shaderProgram
    attached,        \* shaders attached to shaderProgram
    currentProgram,  \* program in use ("0" = none)
    boundVAO,        \* bound vertex array ("0" = none)
    boundBuffer,     \* GL_ARRAY_BUFFER binding ("0" = none)
    vaoAttrib0,      \* attribute 0 record stored in VAO
    vboData,         \* contents of VBO
    out,             \* lines written to std::cout
    err,             \* lines written to std::cerr
    exitCode,        \* value returned by main ("running" until it returns)
    \* ---- observation (history) variables, written but never read by main ----
    trace,           \* library calls of the current loop iteration, in order
    lastDraw,        \* pipeline state seen by the latest glDrawArrays
    sincePress,      \* calls made since a poll first left Escape pressed
    misuse,          \* calls that referenced a dead handle / GL after terminate
    loopEntered,     \* the loop body has been entered
    resized          \* a framebuffer-resize event has been delivered

vars == <<pc, glfw, terminateCalls, window, contextCurrent, resizeCallback,
          shouldClose, keyEsc, fb, viewport, glewLoaded, obj, dels, compiled,
          linked, attached, currentProgram, boundVAO, boundBuffer, vaoAttrib0,
          vboData, out, err, exitCode, trace, lastDraw, sincePress, misuse,
          loopEntered, resized>>

winVars == <<window, contextCurrent, resizeCallback, shouldClose, keyEsc, fb>>
shaderVars == <<compiled, linked, attached, currentProgram>>
geomVars == <<boundVAO, boundBuffer, vaoAttrib0, vboData>>
ioVars == <<out, err, exitCode>>
obsVars == <<lastDraw, sincePress, loopEntered, resized>>

\* ------------------------------------------------------------------ bounds
\* Most events one glfwPollEvents() call delivers.
MaxEvents == 2
\* Saturation of the since-press counters.
Cap == 3

\* --------------------------------------------------------------- constants
SCR_WIDTH == 800
SCR_HEIGHT == 600
SizeofFloat == 4
AttribSize == 3
DrawCount == 6

\* float vertices[] in units of 0.5f
vertices == << -1, -1, 0,   1, -1, 0,   1, 1, 0,
                1,  1, 0,  -1,  1, 0,  -1, -1, 0 >>

Shaders == {"vertexShader", "fragmentShader"}
Objects == Shaders \cup {"shaderProgram", "VBO", "VAO"}

\* Framebuffer sizes the window system may report: the initial one, a
\* rotated one, a wider one and the 0x0 of a minimised window.
Sizes == { <<SCR_WIDTH, SCR_HEIGHT>>, <<SCR_HEIGHT, SCR_WIDTH>>,
           <<SCR_WIDTH + SCR_HEIGHT, SCR_HEIGHT>>, <<0, 0>> }

KeyEvent(a) == [type |-> "key", action |-> a, w |-> 0, h |-> 0]
CloseEvent == [type |-> "close", action |-> "NONE", w |-> 0, h |-> 0]
ResizeEvent(s) == [type |-> "resize", action |-> "NONE", w |-> s[1], h |-> s[2]]
Events == {KeyEvent("PRESS"), KeyEvent("RELEASE"), CloseEvent}
            \cup {ResizeEvent(s) : s \in Sizes}

EventSeqs == UNION {[1..n -> Events] : n \in 0..MaxEvents}

NoDraw == [issued |-> FALSE]
NoPress == [seen |-> FALSE, checks |-> 0, clears |-> 0, draws |-> 0, swaps |-> 0]
DefaultAttrib == [enabled |-> FALSE, buffer |-> "0", size |-> 4, type |-> "GL_FLOAT",
                  normalized |-> FALSE, stride |-> 0, offset |-> 0]

LoopPcs == {"loop_head", "process_input", "clear", "use_program", "bind_vao",
            "draw", "swap", "poll"}

Bump(n) == IF n < Cap THEN n + 1 ELSE Cap

\* ------------------------------------------------------------ observation
\* Record the library calls `names` made by the current step, the handles
\* `refs` they name, and whether they are GL calls.
Call(names, refs, isGL) ==
    /\ trace' = IF pc \in LoopPcs THEN trace \o names ELSE trace
    /\ misuse' = misuse
          \cup {<<"dead_handle", r>> : r \in {x \in refs : obj[x] # "live"}}
          \cup (IF isGL /\ glfw = "terminated" THEN {<<"after_terminate", names[1]>>} ELSE {})

Init ==
    /\ pc = "start"
    /\ glfw = "uninit"
    /\ terminateCalls = 0
    /\ window = "NULL"
    /\ contextCurrent = FALSE
    /\ resizeCallback = "none"
    /\ shouldClose = FALSE
    /\ keyEsc = "RELEASE"
    /\ fb = <<0, 0>>
    /\ viewport = <<0, 0, 0, 0>>
    /\ glewLoaded = FALSE
    /\ obj = [o \in Objects |-> "none"]
    /\ dels = [o \in Objects |-> 0]
    /\ compiled = [s \in Shaders |-> FALSE]
    /\ linked = FALSE
    /\ attached = {}
    /\ currentProgram = "0"
    /\ boundVAO = "0"
    /\ boundBuffer = "0"
    /\ vaoAttrib0 = DefaultAttrib
    /\ vboData = << >>
    /\ out = << >>
    /\ err = << >>
    /\ exitCode = "running"
    /\ trace = << >>
    /\ lastDraw = NoDraw
    /\ sincePress = NoPress
    /\ misuse = {}
    /\ loopEntered = FALSE
    /\ resized = FALSE

\* ------------------------------------------- 3. GLFW init and window (49-67)
\* glfwInit() and the three window hints; the result of glfwInit is not checked.
GlfwInit ==
    /\ pc = "start"
    /\ \E ok \in BOOLEAN : glfw' = IF ok THEN "ready" ELSE "failed"
    /\ pc' = "create_window"
    /\ Call(<<"glfwInit">>, {}, FALSE)
    /\ UNCHANGED <<terminateCalls, winVars, viewport, glewLoaded, obj, dels,
                   shaderVars, geomVars, ioVars, obsVars>>

\* glfwCreateWindow: NULL when the library is not initialised or the driver
\* cannot honour the request.
CreateWindow ==
    /\ pc = "create_window"
    /\ \E ok \in (IF glfw = "ready" THEN BOOLEAN ELSE {FALSE}) :
          /\ window' = IF ok THEN "open" ELSE "NULL"
          /\ fb' = IF ok THEN <<SCR_WIDTH, SCR_HEIGHT>> ELSE fb
          /\ pc' = IF ok THEN "make_current" ELSE "window_failed"
    /\ Call(<<"glfwCreateWindow">>, {}, FALSE)
    /\ UNCHANGED <<glfw, terminateCalls, contextCurrent, resizeCallback, shouldClose,
                   keyEsc, viewport, glewLoaded, obj, dels, shaderVars, geomVars,
                   ioVars, obsVars>>

\* if (window == NULL): report on std::cout
ReportWindowFailure ==
    /\ pc = "window_failed"
    /\ out' = Append(out, "Failed to create GLFW window")
    /\ pc' = "window_failed_terminate"
    /\ Call(<<"cout">>, {}, FALSE)
    /\ UNCHANGED <<glfw, terminateCalls, winVars, viewport, glewLoaded, obj, dels,
                   shaderVars, geomVars, err, exitCode, obsVars>>

\* glfwTerminate() of the window-failure path (returns at once when the
\* library was never initialised)
TerminateAfterWindowFailure ==
    /\ pc = "window_failed_terminate"
    /\ glfw' = IF glfw = "ready" THEN "terminated" ELSE glfw
    /\ terminateCalls' = terminateCalls + 1
    /\ pc' = "window_failed_return"
    /\ Call(<<"glfwTerminate">>, {}, FALSE)
    /\ UNCHANGED <<winVars, viewport, glewLoaded, obj, dels, shaderVars, geomVars,
                   ioVars, obsVars>>

\* return -1;
ReturnWindowFailure ==
    /\ pc = "window_failed_return"
    /\ exitCode' = -1
    /\ pc' = "done"
    /\ UNCHANGED <<glfw, terminateCalls, winVars, viewport, glewLoaded, obj, dels,
                   shaderVars, geomVars, out, err, obsVars, trace, misuse>>

\* glfwMakeContextCurrent(window): the context's viewport starts as the
\* full framebuffer of the window it is first attached to.
MakeContextCurrent ==
    /\ pc = "make_current"
    /\ contextCurrent' = TRUE
    /\ viewport' = <<0, 0, fb[1], fb[2]>>
    /\ pc' = "set_callback"
    /\ Call(<<"glfwMakeContextCurrent">>, {}, FALSE)
    /\ UNCHANGED <<glfw, terminateCalls, window, resizeCallback, shouldClose, keyEsc,
                   fb, glewLoaded, obj, dels, shaderVars, geomVars, ioVars, obsVars>>

\* glfwSetFramebufferSizeCallback(window, framebuffer_size_callback)
SetFramebufferSizeCallback ==
    /\ pc = "set_callback"
    /\ resizeCallback' = "framebuffer_size_callback"
    /\ pc' = "glew_init"
    /\ Call(<<"glfwSetFramebufferSizeCallback">>, {}, FALSE)
    /\ UNCHANGED <<glfw, terminateCalls, window, contextCurrent, shouldClose, keyEsc,
                   fb, viewport, glewLoaded, obj, dels, shaderVars, geomVars, ioVars,
                   obsVars>>

\* ------------------------------------------------------- 4. GLEW (70-75)
GlewInit ==
    /\ pc = "glew_init"
    /\ \E ok \in BOOLEAN :
          /\ glewLoaded' = ok
          /\ pc' = IF ok THEN "compile_vertex" ELSE "glew_failed"
    /\ Call(<<"glewInit">>, {}, FALSE)
    /\ UNCHANGED <<glfw, terminateCalls, winVars, viewport, obj, dels, shaderVars,
                   geomVars, ioVars, obsVars>>

\* Variant: the loader-failure path returns 0.
GlewFailed_ReturnsZero ==
    /\ pc = "glew_failed"
    /\ out' = Append(out, "Failed to initialize GLEW")
    /\ exitCode' = 0
    /\ pc' = "done"
    /\ Call(<<"cout">>, {}, FALSE)
    /\ UNCHANGED <<glfw, terminateCalls, winVars, viewport, glewLoaded, obj, dels,
                   shaderVars, geomVars, err, obsVars>>

\* if (glewInit() != GLEW_OK) { cout << ...; return -1; }
GlewFailed ==
    /\ pc = "glew_failed"
    /\ out' = Append(out, "Failed to initialize GLEW")
    /\ exitCode' = -1
    /\ pc' = "done"
    /\ Call(<<"cout">>, {}, FALSE)
    /\ UNCHANGED <<glfw, terminateCalls, winVars, viewport, glewLoaded, obj, dels,
                   shaderVars, geomVars, err, obsVars>>

\* ------------------------------------------------ 5. shader program (80-122)
\* glCreateShader + glShaderSource + glCompileShader
CompileStage(s, here, next) ==
    /\ pc = here
    /\ obj' = [obj EXCEPT ![s] = "live"]
    /\ \E ok \in BOOLEAN : compiled' = [compiled EXCEPT ![s] = ok]
    /\ pc' = next
    /\ Call(<<"glCreateShader", "glShaderSource", "glCompileShader">>, {}, TRUE)
    /\ UNCHANGED <<glfw, terminateCalls, winVars, viewport, glewLoaded, dels, linked,
                   attached, currentProgram, geomVars, ioVars, obsVars>>

\* glGetShaderiv(GL_COMPILE_STATUS); if (!success) { glGetShaderInfoLog; cout << msg }
CheckStage(s, msg, here, next) ==
    /\ pc = here
    /\ out' = IF compiled[s] THEN out ELSE Append(out, msg)
    /\ pc' = next
    /\ Call(<<"glGetShaderiv">>, {s}, TRUE)
    /\ UNCHANGED <<glfw, terminateCalls, winVars, viewport, glewLoaded, obj, dels,
                   shaderVars, geomVars, err, exitCode, obsVars>>

CompileVertexShader == CompileStage("vertexShader", "compile_vertex", "check_vertex")

CheckVertexShader ==
    CheckStage("vertexShader", "ERROR::SHADER::VERTEX::COMPILATION_FAILED",
               "check_vertex", "compile_fragment")

CompileFragmentShader == CompileStage("fragmentShader", "compile_fragment", "check_fragment")

CheckFragmentShader ==
    CheckStage("fragmentShader", "ERROR::SHADER::FRAGMENT::COMPILATION_FAILED",
               "check_fragment", "link")

\* glCreateProgram, two glAttachShader, glLinkProgram.  A link cannot succeed
\* unless every attached stage compiled; it may fail even then.
LinkProgram ==
    /\ pc = "link"
    /\ obj' = [obj EXCEPT !["shaderProgram"] = "live"]
    /\ attached' = Shaders
    /\ \E ok \in (IF \A s \in Shaders : compiled[s] THEN BOOLEAN ELSE {FALSE}) :
          linked' = ok
    /\ pc' = "check_link"
    /\ Call(<<"glCreateProgram", "glAttachShader", "glAttachShader", "glLinkProgram">>,
            Shaders, TRUE)
    /\ UNCHANGED <<glfw, terminateCalls, winVars, viewport, glewLoaded, dels, compiled,
                   currentProgram, geomVars, ioVars, obsVars>>

\* glGetProgramiv(GL_LINK_STATUS); if (!success) { glGetProgramInfoLog; cout << msg }
CheckLink ==
    /\ pc = "check_link"
    /\ out' = IF linked THEN out ELSE Append(out, "ERROR::SHADER::PROGRAM::LINKING_FAILED")
    /\ pc' = "delete_vertex_shader"
    /\ Call(<<"glGetProgramiv">>, {"shaderProgram"}, TRUE)
    /\ UNCHANGED <<glfw, terminateCalls, winVars, viewport, glewLoaded, obj, dels,
                   shaderVars, geomVars, err, exitCode, obsVars>>

\* glDeleteShader(s): the handle is released (an attached shader lives on
\* inside the program until the program goes).
DeleteShader(s, here, next) ==
    /\ pc = here
    /\ Call(<<"glDeleteShader">>, {s}, TRUE)
    /\ obj' = [obj EXCEPT ![s] = "deleted"]
    /\ dels' = [dels EXCEPT ![s] = @ + 1]
    /\ pc' = next
    /\ UNCHANGED <<glfw, terminateCalls, winVars, viewport, glewLoaded, shaderVars,
                   geomVars, ioVars, obsVars>>

DeleteVertexShader == DeleteShader("vertexShader", "delete_vertex_shader", "delete_fragment_shader")

\* Variant: the second delete names the vertex shader again.
DeleteFragmentShader_CopyPaste ==
    DeleteShader("vertexShader", "delete_fragment_shader", "gen_objects")

DeleteFragmentShader == DeleteShader("fragmentShader", "delete_fragment_shader", "gen_objects")

\* ------------------------------------------------- 7. VBO and VAO (137-159)
\* glGenVertexArrays(1, &VAO); glGenBuffers(1, &VBO);
GenObjects ==
    /\ pc = "gen_objects"
    /\ obj' = [obj EXCEPT !["VAO"] = "live", !["VBO"] = "live"]
    /\ pc' = "setup_bind_vao"
    /\ Call(<<"glGenVertexArrays", "glGenBuffers">>, {}, TRUE)
    /\ UNCHANGED <<glfw, terminateCalls, winVars, viewport, glewLoaded, dels,
                   shaderVars, geomVars, ioVars, obsVars>>

\* glBindVertexArray(array): binding a name that is not a live VAO is an
\* error and leaves the binding as it was.
BindVertexArray(array) ==
    IF array = "0" \/ obj[array] = "live" THEN array ELSE boundVAO

\* glBindVertexArray(VAO);
SetupBindVAO ==
    /\ pc = "setup_bind_vao"
    /\ boundVAO' = BindVertexArray("VAO")
    /\ pc' = "setup_bind_buffer"
    /\ Call(<<"glBindVertexArray">>, {"VAO"}, TRUE)
    /\ UNCHANGED <<glfw, terminateCalls, winVars, viewport, glewLoaded, obj, dels,
                   shaderVars, boundBuffer, vaoAttrib0, vboData, ioVars, obsVars>>

\* glBindBuffer(GL_ARRAY_BUFFER, VBO);
SetupBindBuffer ==
    /\ pc = "setup_bind_buffer"
    /\ boundBuffer' = "VBO"
    /\ pc' = "buffer_data"
    /\ Call(<<"glBindBuffer">>, {"VBO"}, TRUE)
    /\ UNCHANGED <<glfw, terminateCalls, winVars, viewport, glewLoaded, obj, dels,
                   shaderVars, boundVAO, vaoAttrib0, vboData, ioVars, obsVars>>

\* glBufferData(GL_ARRAY_BUFFER, sizeof(vertices), vertices, GL_STATIC_DRAW):
\* fills the buffer bound to GL_ARRAY_BUFFER, if any.
BufferData ==
    /\ pc = "buffer_data"
    /\ vboData' = IF boundBuffer = "VBO" THEN vertices ELSE vboData
    /\ pc' = "attrib_pointer"
    /\ Call(<<"glBufferData">>, {}, TRUE)
    /\ UNCHANGED <<glfw, terminateCalls, winVars, viewport, glewLoaded, obj, dels,
                   shaderVars, boundVAO, boundBuffer, vaoAttrib0, ioVars, obsVars>>

\* Variant: the layout is declared with no buffer bound to GL_ARRAY_BUFFER.
VertexAttribPointer_NoBuffer(attr) ==
    [attr EXCEPT !.buffer = "0", !.size = AttribSize, !.type = "GL_FLOAT",
                 !.normalized = FALSE, !.stride = AttribSize * SizeofFloat,
                 !.offset = 0]

\* glVertexAttribPointer(0, 3, GL_FLOAT, GL_FALSE, 3 * sizeof(float), (void*)0):
\* the bound VAO records the layout together with the buffer bound to
\* GL_ARRAY_BUFFER at the time of the call.
VertexAttribPointer(attr) ==
    [attr EXCEPT !.buffer = boundBuffer, !.size = AttribSize, !.type = "GL_FLOAT",
                 !.normalized = FALSE, !.stride = AttribSize * SizeofFloat,
                 !.offset = 0]

SetupAttribPointer ==
    /\ pc = "attrib_pointer"
    /\ vaoAttrib0' = IF boundVAO = "VAO" THEN VertexAttribPointer(vaoAttrib0)
                                          ELSE vaoAttrib0
    /\ pc' = "enable_attrib"
    /\ Call(<<"glVertexAttribPointer">>, {}, TRUE)
    /\ UNCHANGED <<glfw, terminateCalls, winVars, viewport, glewLoaded, obj, dels,
                   shaderVars, boundVAO, boundBuffer, vboData, ioVars, obsVars>>

\* glEnableVertexAttribArray(0);
SetupEnableAttrib ==
    /\ pc = "enable_attrib"
    /\ vaoAttrib0' = IF boundVAO = "VAO" THEN [vaoAttrib0 EXCEPT !.enabled = TRUE]
                                          ELSE vaoAttrib0
    /\ pc' = "unbind_buffer"
    /\ Call(<<"glEnableVertexAttribArray">>, {}, TRUE)
    /\ UNCHANGED <<glfw, terminateCalls, winVars, viewport, glewLoaded, obj, dels,
                   shaderVars, boundVAO, boundBuffer, vboData, ioVars, obsVars>>

\* glBindBuffer(GL_ARRAY_BUFFER, 0);
UnbindBuffer ==
    /\ pc = "unbind_buffer"
    /\ boundBuffer' = "0"
    /\ pc' = "unbind_vao"
    /\ Call(<<"glBindBuffer">>, {}, TRUE)
    /\ UNCHANGED <<glfw, terminateCalls, winVars, viewport, glewLoaded, obj, dels,
                   shaderVars, boundVAO, vaoAttrib0, vboData, ioVars, obsVars>>

\* glBindVertexArray(0);
UnbindVAO ==
    /\ pc = "unbind_vao"
    /\ boundVAO' = BindVertexArray("0")
    /\ pc' = "loop_head"
    /\ Call(<<"glBindVertexArray">>, {}, TRUE)
    /\ UNCHANGED <<glfw, terminateCalls, winVars, viewport, glewLoaded, obj, dels,
                   shaderVars, boundBuffer, vaoAttrib0, vboData, ioVars, obsVars>>

\* ------------------------------------------------------ callbacks (34-44)
\* Variant: width and height swapped in the glViewport call.
framebuffer_size_callback_Swapped(width, height) == <<0, 0, height, width>>

\* framebuffer_size_callback: glViewport(0, 0, width, height); the new viewport
framebuffer_size_callback(width, height) == <<0, 0, width, height>>

\* Variant: the key is read but the close flag is never set.
processInput_IgnoresKey(key, close) == close

\* processInput: the close flag after
\*   if (glfwGetKey(window, GLFW_KEY_ESCAPE) == GLFW_PRESS) glfwSetWindowShouldClose(window, true);
processInput(key, close) == IF key = "PRESS" THEN TRUE ELSE close

\* The library calls processInput makes.
processInputCalls(key) ==
    IF key = "PRESS" THEN <<"glfwGetKey", "glfwSetWindowShouldClose">>
                     ELSE <<"glfwGetKey">>

\* One event handled inside glfwPollEvents: a key event updates the cached
\* key state, a close request sets the close flag, a framebuffer resize
\* invokes the registered callback.
HandleEvent(st, e) ==
    CASE e.type = "key" -> [st EXCEPT !.key = e.action]
      [] e.type = "close" -> [st EXCEPT !.close = TRUE]
      [] e.type = "resize" ->
            [st EXCEPT !.fb = <<e.w, e.h>>,
                       !.vp = IF resizeCallback = "framebuffer_size_callback"
                                 THEN framebuffer_size_callback(e.w, e.h)
                                 ELSE @,
                       !.resized = TRUE]

RECURSIVE HandleEvents(_, _)
HandleEvents(st, evs) ==
    IF evs = << >> THEN st
    ELSE HandleEvents(HandleEvent(st, Head(evs)), Tail(evs))

\* --------------------------------------------------- 8. render loop (162-179)
\* Variant: the loop condition lacks its negation.
LoopHead_MissingNot ==
    /\ pc = "loop_head"
    /\ pc' = IF shouldClose THEN "process_input" ELSE "delete_vao"
    /\ trace' = <<"glfwWindowShouldClose">>
    /\ sincePress' = IF sincePress.seen
                        THEN [sincePress EXCEPT !.checks = Bump(@)] ELSE sincePress
    /\ UNCHANGED <<glfw, terminateCalls, winVars, viewport, glewLoaded, obj, dels,
                   shaderVars, geomVars, ioVars, lastDraw, loopEntered, resized,
                   misuse>>

\* while (!glfwWindowShouldClose(window))
LoopHead ==
    /\ pc = "loop_head"
    /\ pc' = IF shouldClose THEN "delete_vao" ELSE "process_input"
    /\ trace' = <<"glfwWindowShouldClose">>
    /\ sincePress' = IF sincePress.seen
                        THEN [sincePress EXCEPT !.checks = Bump(@)] ELSE sincePress
    /\ UNCHANGED <<glfw, terminateCalls, winVars, viewport, glewLoaded, obj, dels,
                   shaderVars, geomVars, ioVars, lastDraw, loopEntered, resized,
                   misuse>>

\* processInput(window);
ProcessInput ==
    /\ pc = "process_input"
    /\ shouldClose' = processInput(keyEsc, shouldClose)
    /\ loopEntered' = TRUE
    /\ pc' = "clear"
    /\ Call(processInputCalls(keyEsc), {}, FALSE)
    /\ UNCHANGED <<glfw, terminateCalls, window, contextCurrent, resizeCallback,
                   keyEsc, fb, viewport, glewLoaded, obj, dels, shaderVars, geomVars,
                   ioVars, lastDraw, sincePress, resized>>

\* glClearColor(0.15f, 0.15f, 0.15f, 1.0f); glClear(GL_COLOR_BUFFER_BIT);
ClearScreen ==
    /\ pc = "clear"
    /\ pc' = "use_program"
    /\ sincePress' = IF sincePress.seen
                        THEN [sincePress EXCEPT !.clears = Bump(@)] ELSE sincePress
    /\ Call(<<"glClearColor", "glClear">>, {}, TRUE)
    /\ UNCHANGED <<glfw, terminateCalls, winVars, viewport, glewLoaded, obj, dels,
                   shaderVars, geomVars, ioVars, lastDraw, loopEntered, resized>>

\* glUseProgram(shaderProgram): a program that did not link cannot be made
\* current (GL_INVALID_OPERATION), the current program stays what it was.
UseProgram ==
    /\ pc = "use_program"
    /\ currentProgram' = IF linked THEN "shaderProgram" ELSE currentProgram
    /\ pc' = "bind_vao"
    /\ Call(<<"glUseProgram">>, {"shaderProgram"}, TRUE)
    /\ UNCHANGED <<glfw, terminateCalls, winVars, viewport, glewLoaded, obj, dels,
                   compiled, linked, attached, geomVars, ioVars, obsVars>>

\* glBindVertexArray(VAO);
BindVAO ==
    /\ pc = "bind_vao"
    /\ boundVAO' = BindVertexArray("VAO")
    /\ pc' = "draw"
    /\ Call(<<"glBindVertexArray">>, {"VAO"}, TRUE)
    /\ UNCHANGED <<glfw, terminateCalls, winVars, viewport, glewLoaded, obj, dels,
                   shaderVars, boundBuffer, vaoAttrib0, vboData, ioVars, obsVars>>

\* The pipeline state a draw call reads.
DrawState ==
    [issued |-> TRUE, mode |-> "GL_TRIANGLES", first |-> 0, count |-> DrawCount,
     program |-> currentProgram,
     linked |-> (currentProgram = "shaderProgram" /\ linked),
     linkStatus |-> linked,
     vao |-> boundVAO,
     attrib0 |-> IF boundVAO = "VAO" THEN vaoAttrib0 ELSE DefaultAttrib,
     data |-> vboData,
     viewport |-> viewport, fb |-> fb, resized |-> resized]

\* glDrawArrays(GL_TRIANGLES, 0, 6);
DrawArrays ==
    /\ pc = "draw"
    /\ lastDraw' = DrawState
    /\ sincePress' = IF sincePress.seen
                        THEN [sincePress EXCEPT !.draws = Bump(@)] ELSE sincePress
    /\ pc' = "swap"
    /\ Call(<<"glDrawArrays">>, {"VAO", "VBO"}, TRUE)
    /\ UNCHANGED <<glfw, terminateCalls, winVars, viewport, glewLoaded, obj, dels,
                   shaderVars, geomVars, ioVars, loopEntered, resized>>

\* Variant: the iteration ends after the swap, without polling.
SwapBuffers_SkipsPoll ==
    /\ pc = "swap"
    /\ sincePress' = IF sincePress.seen
                        THEN [sincePress EXCEPT !.swaps = Bump(@)] ELSE sincePress
    /\ pc' = "loop_head"
    /\ Call(<<"glfwSwapBuffers">>, {}, FALSE)
    /\ UNCHANGED <<glfw, terminateCalls, winVars, viewport, glewLoaded, obj, dels,
                   shaderVars, geomVars, ioVars, lastDraw, loopEntered, resized>>

\* glfwSwapBuffers(window);
SwapBuffers ==
    /\ pc = "swap"
    /\ sincePress' = IF sincePress.seen
                        THEN [sincePress EXCEPT !.swaps = Bump(@)] ELSE sincePress
    /\ pc' = "poll"
    /\ Call(<<"glfwSwapBuffers">>, {}, FALSE)
    /\ UNCHANGED <<glfw, terminateCalls, winVars, viewport, glewLoaded, obj, dels,
                   shaderVars, geomVars, ioVars, lastDraw, loopEntered, resized>>

\* glfwPollEvents(): handles every pending event, in order.
PollEvents ==
    /\ pc = "poll"
    /\ \E evs \in EventSeqs :
          LET st == HandleEvents([key |-> keyEsc, close |-> shouldClose, fb |-> fb,
                                  vp |-> viewport, resized |-> resized], evs)
          IN /\ keyEsc' = st.key
             /\ shouldClose' = st.close
             /\ fb' = st.fb
             /\ viewport' = st.vp
             /\ resized' = st.resized
             /\ sincePress' = IF ~sincePress.seen /\ st.key = "PRESS"
                                 THEN [NoPress EXCEPT !.seen = TRUE] ELSE sincePress
    /\ pc' = "loop_head"
    /\ Call(<<"glfwPollEvents">>, {}, FALSE)
    /\ UNCHANGED <<glfw, terminateCalls, window, contextCurrent, resizeCallback,
                   glewLoaded, obj, dels, shaderVars, geomVars, ioVars, lastDraw,
                   loopEntered>>

\* --------------------------------------------------- 9. cleanup (182-187)
\* glDeleteVertexArrays(1, &VAO): a bound VAO that is deleted is unbound.
DeleteVertexArrays ==
    /\ pc = "delete_vao"
    /\ Call(<<"glDeleteVertexArrays">>, {"VAO"}, TRUE)
    /\ obj' = [obj EXCEPT !["VAO"] = "deleted"]
    /\ dels' = [dels EXCEPT !["VAO"] = @ + 1]
    /\ boundVAO' = IF boundVAO = "VAO" THEN "0" ELSE boundVAO
    /\ pc' = "delete_vbo"
    /\ UNCHANGED <<glfw, terminateCalls, winVars, viewport, glewLoaded, shaderVars,
                   boundBuffer, vaoAttrib0, vboData, ioVars, obsVars>>

\* glDeleteBuffers(1, &VBO);
DeleteBuffers ==
    /\ pc = "delete_vbo"
    /\ Call(<<"glDeleteBuffers">>, {"VBO"}, TRUE)
    /\ obj' = [obj EXCEPT !["VBO"] = "deleted"]
    /\ dels' = [dels EXCEPT !["VBO"] = @ + 1]
    /\ boundBuffer' = IF boundBuffer = "VBO" THEN "0" ELSE boundBuffer
    /\ pc' = "delete_program"
    /\ UNCHANGED <<glfw, terminateCalls, winVars, viewport, glewLoaded, shaderVars,
                   boundVAO, vaoAttrib0, vboData, ioVars, obsVars>>

\* glDeleteProgram(shaderProgram);
DeleteProgram ==
    /\ pc = "delete_program"
    /\ Call(<<"glDeleteProgram">>, {"shaderProgram"}, TRUE)
    /\ obj' = [obj EXCEPT !["shaderProgram"] = "deleted"]
    /\ dels' = [dels EXCEPT !["shaderProgram"] = @ + 1]
    /\ pc' = "terminate"
    /\ UNCHANGED <<glfw, terminateCalls, winVars, viewport, glewLoaded, shaderVars,
                   geomVars, ioVars, obsVars>>

\* glfwTerminate(): destroys the window and its context.
Terminate ==
    /\ pc = "terminate"
    /\ glfw' = "terminated"
    /\ terminateCalls' = terminateCalls + 1
    /\ window' = "destroyed"
    /\ contextCurrent' = FALSE
    /\ pc' = "return_ok"
    /\ Call(<<"glfwTerminate">>, {}, FALSE)
    /\ UNCHANGED <<resizeCallback, shouldClose, keyEsc, fb, viewport, glewLoaded, obj,
                   dels, shaderVars, geomVars, ioVars, obsVars>>

\* return 0;
ReturnOk ==
    /\ pc = "return_ok"
    /\ exitCode' = 0
    /\ pc' = "done"
    /\ UNCHANGED <<glfw, terminateCalls, winVars, viewport, glewLoaded, obj, dels,
                   shaderVars, geomVars, out, err, obsVars, trace, misuse>>

Next ==
    \/ GlfwInit \/ CreateWindow \/ ReportWindowFailure \/ TerminateAfterWindowFailure
    \/ ReturnWindowFailure \/ MakeContextCurrent \/ SetFramebufferSizeCallback
    \/ GlewInit \/ GlewFailed
    \/ CompileVertexShader \/ CheckVertexShader \/ CompileFragmentShader
    \/ CheckFragmentShader \/ LinkProgram \/ CheckLink
    \/ DeleteVertexShader \/ DeleteFragmentShader
    \/ GenObjects \/ SetupBindVAO \/ SetupBindBuffer \/ BufferData
    \/ SetupAttribPointer \/ SetupEnableAttrib \/ UnbindBuffer \/ UnbindVAO
    \/ LoopHead \/ ProcessInput \/ ClearScreen \/ UseProgram \/ BindVAO
    \/ DrawArrays \/ SwapBuffers \/ PollEvents
    \/ DeleteVertexArrays \/ DeleteBuffers \/ DeleteProgram \/ Terminate \/ ReturnOk

Spec == Init /\ [][Next]_vars

\* main runs on one thread that keeps executing: every enabled step is taken.
LiveSpec == Spec /\ WF_vars(Next)

\* =========================================================== properties
Range(f) == {f[i] : i \in DOMAIN f}

IsPrefix(a, b) == Len(a) <= Len(b) /\ SubSeq(b, 1, Len(a)) = a

BodyPcs == LoopPcs \ {"loop_head"}

FailurePcs == {"window_failed", "window_failed_terminate", "window_failed_return",
               "glew_failed"}

\* C1: on every exit path of main reached after glfwInit (window creation
\* failure, loader failure, normal loop exit) glfwTerminate has been called
\* before main returns.
C1_TerminateOnEveryExit == pc = "done" => terminateCalls >= 1

\* C2: main returns -1 exactly when window creation or the loader failed and
\* 0 in every other finished run, whatever the compile and link outcomes;
\* after an init failure the loop is never entered and nothing is drawn.
C2_ExitStatus ==
    /\ pc = "done" =>
          /\ exitCode \in {-1, 0}
          /\ (exitCode = -1) <=> (window = "NULL" \/ ~glewLoaded)
          /\ (exitCode = 0) <=> (window = "destroyed" /\ glewLoaded /\ shouldClose)
    /\ (pc \in FailurePcs \/ (pc = "done" /\ (window = "NULL" \/ ~glewLoaded))) =>
          ~loopEntered /\ ~lastDraw.issued

C2_Witness ==
    /\ pc = "done" /\ exitCode = 0
    /\ ~compiled["vertexShader"] /\ ~linked /\ lastDraw.issued

C4_ViewportCoversFramebuffer ==
    /\ lastDraw.issued =>
          /\ lastDraw.viewport = <<0, 0, lastDraw.fb[1], lastDraw.fb[2]>>
          /\ ~lastDraw.resized => lastDraw.viewport = <<0, 0, 800, 600>>
    /\ (pc \in LoopPcs) => /\ resizeCallback = "framebuffer_size_callback"
                           /\ viewport = <<0, 0, fb[1], fb[2]>>

C4_Witness ==
    /\ lastDraw.issued /\ lastDraw.resized
    /\ lastDraw.fb = <<600, 800>> /\ lastDraw.viewport = <<0, 0, 600, 800>>

\* C5: no draw call is issued unless the program made current by
\* glUseProgram linked successfully, for every compile and link outcome.
C5_LinkedBeforeDraw == lastDraw.issued => lastDraw.linked

\* C6: when a stage compile or the link fails, a diagnostic naming the failed
\* step is written to the standard error stream, and the program still sets
\* up the geometry and enters the render loop.
C6_DiagnosticOnStderr ==
    /\ (loopEntered /\ ~compiled["vertexShader"])
          => "ERROR::SHADER::VERTEX::COMPILATION_FAILED" \in Range(err)
    /\ (loopEntered /\ ~compiled["fragmentShader"])
          => "ERROR::SHADER::FRAGMENT::COMPILATION_FAILED" \in Range(err)
    /\ (loopEntered /\ ~linked)
          => "ERROR::SHADER::PROGRAM::LINKING_FAILED" \in Range(err)
    /\ (pc = "done" /\ glewLoaded) => loopEntered /\ vboData = vertices

\* C7: at every draw call the VAO made during setup is bound, its attribute
\* 0 is enabled and reads the uploaded buffer as {3, float, not normalized,
\* stride 12, offset 0}; unbinding the buffer and the VAO at the end of setup
\* keeps that association, and nothing from setup to cleanup changes the
\* descriptor or the buffer contents.
SetupAttrib == [enabled |-> TRUE, buffer |-> "VBO", size |-> 3, type |-> "GL_FLOAT",
                normalized |-> FALSE, stride |-> 12, offset |-> 0]

C7_VaoBoundAtDraw ==
    /\ lastDraw.issued =>
          /\ lastDraw.vao = "VAO"
          /\ lastDraw.attrib0 = SetupAttrib
          /\ lastDraw.data = vertices
    /\ (pc \in LoopPcs \cup {"delete_vao"}) =>
          /\ vaoAttrib0 = SetupAttrib
          /\ vboData = vertices
          /\ boundBuffer = "0"
          /\ obj["VAO"] = "live" /\ obj["VBO"] = "live"
    /\ (pc = "loop_head" /\ ~loopEntered) => boundVAO = "0"

C7_Witness ==
    /\ lastDraw.issued /\ lastDraw.vao = "VAO" /\ lastDraw.attrib0.buffer = "VBO"
    /\ boundBuffer = "0" /\ pc = "swap"

\* C8 (as stated): within an iteration the events are polled first, then
\* Escape is checked, then clear, draw (program, VAO, 6 vertices) and swap.
SpecOrder(esc) ==
    <<"glfwWindowShouldClose", "glfwPollEvents", "glfwGetKey">>
    \o (IF esc THEN <<"glfwSetWindowShouldClose">> ELSE << >>)
    \o <<"glClearColor", "glClear", "glUseProgram", "glBindVertexArray",
         "glDrawArrays", "glfwSwapBuffers">>

CodeOrder(esc) ==
    <<"glfwWindowShouldClose", "glfwGetKey">>
    \o (IF esc THEN <<"glfwSetWindowShouldClose">> ELSE << >>)
    \o <<"glClearColor", "glClear", "glUseProgram", "glBindVertexArray",
         "glDrawArrays", "glfwSwapBuffers", "glfwPollEvents">>

C9_CloseFlagEndsLoop ==
    /\ [][shouldClose => shouldClose']_vars
    /\ [][(pc \in LoopPcs /\ pc' \notin LoopPcs) => (pc = "loop_head" /\ shouldClose)]_vars
    /\ [](pc \in BodyPcs =>
            Cardinality({i \in DOMAIN trace : trace[i] = "glfwWindowShouldClose"}) = 1)
    /\ (shouldClose ~> (pc = "done" /\ exitCode = 0 /\ glfw = "terminated"
                        /\ \A o \in Objects : obj[o] = "deleted"))

C9_Witness ==
    /\ pc = "done" /\ shouldClose /\ exitCode = 0 /\ keyEsc = "RELEASE"
    /\ ~sincePress.seen

\* C10: every GPU object main creates is deleted exactly once and never
\* named by a later call: both shaders right after the link check whatever
\* the compile and link outcomes, the VAO, the buffer and the program after
\* the loop and before glfwTerminate; no GL call follows glfwTerminate.
C10_ReleasedOnceNeverReused ==
    /\ misuse = {}
    /\ \A o \in Objects : dels[o] <= 1 /\ (dels[o] = 1 <=> obj[o] = "deleted")
    /\ (obj["VAO"] # "none" \/ obj["VBO"] # "none") =>
          \A s \in Shaders : obj[s] = "deleted"
    /\ (pc \in {"check_link", "delete_vertex_shader"}) =>
          \A s \in Shaders : obj[s] = "live"
    /\ (glfw = "terminated" /\ glewLoaded) => \A o \in Objects : obj[o] = "deleted"
    /\ pc = "done" => \A o \in Objects : obj[o] # "live"

C10_Witness ==
    /\ pc = "done" /\ exitCode = 0 /\ ~compiled["fragmentShader"]
    /\ \A o \in Objects : dels[o] = 1

====
